---- MODULE Spec2Model ----
(***************************************************************************)
(* Model of the authentication / session core of nestjs-prisma-jwt:        *)
(* AuthService (register, login, refresh, logout) over the users and       *)
(* refresh_tokens tables, with bcrypt and jsonwebtoken modelled by what    *)
(* they compute.                                                           *)
(*                                                                         *)
(* Every handler is followed from await to await: a step of the model is   *)
(* the stretch of one handler between two awaited calls, and the clock can *)
(* advance between any two steps, between the two clock readings of the    *)
(* arrival of refresh and between the clock readings of generateTokens.    *)
(*                                                                         *)
(* The specifications share the state:                                     *)
(*   Spec      sequential use: a request arrives when the one before it    *)
(*             has ended, and the store answers every call;                *)
(*   SpecConc  two requests at a time interleave their steps with each     *)
(*             other and with the clock, and the store can reject a call;  *)
(*   SpecStore one request at a time, with a store that can reject the     *)
(*             calls that write and the findMany of refresh;               *)
(*   SpecReg   two register requests at a time;                            *)
(*   SpecGuard the JWT guard of the protected routes (JwtStrategy over     *)
(*             AuthService.validateUser), while the tables are cleared;    *)
(*   SpecPost  PostService over the posts table, two requests at a time.   *)
(***************************************************************************)
EXTENDS Integers, Sequences, FiniteSets, TLC

VARIABLES
    cfg,        \* validated environment (EnvConfig) and the time zone of the process
    now,        \* wall clock, milliseconds since the start of the run
    users,      \* table users
    rows,       \* table refresh_tokens
    issued,     \* history: every refresh token handed to a client, with the id of its row
    consumed,   \* history: refresh tokens presented in a successful rotation
    res,        \* outcome of the last request of AuthService that ended
    seq,        \* number of requests started so far
    ticks,      \* number of clock steps so far
    procs,      \* the request slots: where each request is suspended, and what it holds
    hook,       \* the call at which the clearing of the tables is suspended
    guard,      \* outcome of the last JwtStrategy check of a bearer token
    posts,      \* table posts
    removed,    \* history: ids of the posts that were deleted
    postRes     \* outcome of the last completed PostService request

\* the state outside the authentication core
ext == <<hook, guard, posts, removed, postRes>>

vars == <<cfg, now, users, rows, issued, consumed, res, seq, ticks, procs, ext>>

----------------------------------------------------------------------------
(* Bounds of the exploration *)

MaxOps == 4          \* requests per run
MaxTicks == 1        \* clock steps per run

Emails == {"alice@example.com", "bob@example.com"}
\* a password is the sequence of its runs: n times the character char
Run(c, n) == [char |-> c, n |-> n]
Password123 ==
    << Run("p", 1), Run("a", 1), Run("s", 2), Run("w", 1), Run("o", 1), Run("r", 1),
       Run("d", 1), Run("1", 1), Run("2", 1), Run("3", 1) >>
WrongPassword ==
    << Run("w", 1), Run("r", 1), Run("o", 1), Run("n", 1), Run("g", 1), Run("p", 1),
       Run("a", 1), Run("s", 2), Run("w", 1), Run("o", 1), Run("r", 1), Run("d", 1) >>
\* two passwords of 73 characters that share their first 72
LongPasswordA == << Run("p", 72), Run("A", 1) >>
LongPasswordB == << Run("p", 72), Run("B", 1) >>
Passwords == {LongPasswordB, LongPasswordA, WrongPassword}   \* passwords tried at login
RegisterPasswords == {LongPasswordB}                         \* passwords chosen at registration
SpecRegPasswords == {Password123, LongPasswordB}             \* the same, in SpecReg
CreateTitles == {"Draft"}                         \* title of a new post
UpdateTitles == {"Final"}                         \* title set by an update
PostTickSteps == {1}                              \* clock steps between PostService requests
RegisterNames == {"Alice"}                        \* display names chosen at registration
Procs == {1, 2}       \* the request slots: at most two requests are in flight together

----------------------------------------------------------------------------
(* Program constants *)

DAY_MS == 86400000
HOUR_MS == 3600000
BCRYPT_MAX_BYTES == 72
BCRYPT_TOKEN_ROUNDS == 10
DEFAULT_SALT_ROUNDS == 10
ACCESS_TTL_SEC == 900
\* the units of ms(), in seconds; a year has 365.25 days
SECOND_SEC == 1
MINUTE_SEC == 60
HOUR_SEC == 3600
DAY_SEC == 86400
WEEK_SEC == 604800
YEAR_SEC == 31557600
\* the instant, after the start of a run, at which the local clock of a time zone with
\* daylight saving time changes
DST_AT == 7 * HOUR_MS

(* Layout of a refresh JWT as the string handed to bcrypt.                 *)
(* header: base64url of {"alg":"HS256","typ":"JWT"} (36 chars) and the dot *)
JWT_HEADER_CHARS == 37
(* byte offsets, in the payload JSON                                       *)
(*   {"sub":"<uuid>","type":"refresh","tokenVersion":<13 digits>,          *)
(*    "iat":<10 digits>,"exp":<10 digits>}                                 *)
SUB_OFFSET == 8
TYPE_OFFSET == 54
VERSION_OFFSET == 78
IAT_OFFSET == 98
EXP_OFFSET == 115
PAYLOAD_BYTES == 126
\* layout of a bcrypt hash string: "$2b$", two digits of cost, "$", 22 characters of salt
BCRYPT_ROUNDS_START == 4
BCRYPT_SALT_START == 7
BCRYPT_DIGEST_START == 29
BCRYPT_HASH_CHARS == 60
\* base64url characters of an HS256 signature
SIGNATURE_CHARS == 43

\* position, in the encoded token, of the base64url character that carries payload byte off
EncodedStart(off) == JWT_HEADER_CHARS + (off * 4) \div 3

----------------------------------------------------------------------------
(* bcrypt draws a fresh random salt for every hash; the model numbers the  *)
(* salts, one per hash computed.                                           *)
(*                                                                         *)
(* Strings: a sequence of segments, each with the character position where *)
(* it starts, its length and its content.  The segments of a token are its *)
(* fields, each running to the start of the next; two user ids are taken   *)
(* to differ within their first 18 characters (the part of the uuid that   *)
(* lies before position BCRYPT_MAX_BYTES).  The segments of a password are *)
(* its runs of one character.                                              *)

\* the segment of a string that starts at position from, ends before position to and
\* holds val
Segment(from, to, val) == [start |-> from, len |-> to - from, val |-> val]

\* where the fields of a refresh JWT start in the encoded token; the signature follows
\* the payload and a dot
SUB_START == EncodedStart(SUB_OFFSET)
TYPE_START == EncodedStart(TYPE_OFFSET)
VERSION_START == EncodedStart(VERSION_OFFSET)
IAT_START == EncodedStart(IAT_OFFSET)
EXP_START == EncodedStart(EXP_OFFSET)
SIGNATURE_START == EncodedStart(PAYLOAD_BYTES) + 1
TOKEN_CHARS == SIGNATURE_START + SIGNATURE_CHARS

TokenString(tok) ==
    << Segment(0, SUB_START, "HS256"),
       Segment(SUB_START, TYPE_START, tok.sub),
       Segment(TYPE_START, VERSION_START, tok.type),
       Segment(VERSION_START, IAT_START, tok.tokenVersion),
       Segment(IAT_START, EXP_START, tok.iat),
       Segment(EXP_START, SIGNATURE_START, tok.exp),
       Segment(SIGNATURE_START, TOKEN_CHARS, tok.key) >>

\* the segments of the runs pw, the first of which starts at position at
RECURSIVE RunSegments(_, _)
RunSegments(pw, at) ==
    IF pw = <<>>
    THEN <<>>
    ELSE <<Segment(at, at + Head(pw).n, Head(pw).char)>>
             \o RunSegments(Tail(pw), at + Head(pw).n)

\* a password as bcrypt receives it
PasswordString(pw) == RunSegments(pw, 0)

\* bcrypt reads at most the first BCRYPT_MAX_BYTES bytes of its input
BcryptKey(s) ==
    LET Before(seg) == seg.start < BCRYPT_MAX_BYTES
        Cut(seg) == IF seg.start + seg.len > BCRYPT_MAX_BYTES
                    THEN [seg EXCEPT !.len = BCRYPT_MAX_BYTES - seg.start]
                    ELSE seg
    IN  SelectSeq([i \in DOMAIN s |-> Cut(s[i])], Before)

\* bcrypt.hash(s, rounds) with the salt it drew
\* the result is the string "$2b$" rounds "$" salt digest
BcryptHash(s, salt, rounds) ==
    << Segment(0, BCRYPT_ROUNDS_START, "$2b$"),
       Segment(BCRYPT_ROUNDS_START, BCRYPT_SALT_START, rounds),
       Segment(BCRYPT_SALT_START, BCRYPT_DIGEST_START, salt),
       Segment(BCRYPT_DIGEST_START, BCRYPT_HASH_CHARS, BcryptKey(s)) >>

\* bcrypt.compare(s, hash): re-hash s with the salt and rounds stored in hash
BcryptCompare(s, hash) ==
    BcryptHash(s, hash[3].val, hash[2].val) = hash

----------------------------------------------------------------------------
(* jsonwebtoken *)

NoToken == [sub |-> 0, type |-> "none", tokenVersion |-> 0, iat |-> 0, exp |-> 0, key |-> "none"]

\* ms(): the seconds of the unit that follows the number of a time span such as '7d'
UnitSeconds(unit) ==
    CASE unit = "s" -> SECOND_SEC
      [] unit = "m" -> MINUTE_SEC
      [] unit = "h" -> HOUR_SEC
      [] unit = "d" -> DAY_SEC
      [] unit = "w" -> WEEK_SEC
      [] unit = "y" -> YEAR_SEC

\* expiresIn: span: the seconds jsonwebtoken adds to iat
SpanSeconds(span) == span.n * UnitSeconds(span.unit)

\* parseInt(span.replace('d', '')): the leading integer, whatever the unit
ParseIntDays(span) == span.n

\* jwtService.sign(payload, {secret, expiresIn}) at clock reading t
JwtSign(sub, type, version, secret, ttlSec, t) ==
    [sub |-> sub, type |-> type, tokenVersion |-> version,
     iat |-> t \div 1000, exp |-> (t \div 1000) + ttlSec, key |-> secret]

\* jwtService.verify(token, {secret}) at clock reading t: signature, then expiry
JwtVerify(tok, secret, t) ==
    /\ tok.key = secret
    /\ ~ ((t \div 1000) >= tok.exp)

----------------------------------------------------------------------------
(* Tables *)

NoRow == [id |-> 0, token |-> BcryptHash(<<>>, 0, 0), userId |-> 0, expiresAt |-> 0]

\* mutant: the where clause on userId is missing
RowsOf_All(rws, uid) == rws

\* the rows selected by where: {userId}
RowsOf(rws, uid) == {r \in rws : r.userId = uid}
RowIds(rws) == {r.id : r \in rws}

\* mutant: the lookup by email never finds the user
FindUserByEmail_None(us, email) == {}

\* prisma.user.findUnique({where: {email}})
FindUserByEmail(us, email) == {u \in us : u.email = email}

\* mutant: findMany without the expiresAt filter
FindValid_NoExpiry(rws, uid, t) == {r \in rws : r.userId = uid}

\* prisma.refreshToken.findMany({where: {userId, expiresAt: {gte: new Date()}}})
FindValid(rws, uid, t) == {r \in rws : r.userId = uid /\ r.expiresAt >= t}

\* the rows of a findMany result that the presented token compares equal to
Matching(tok, stored) == {r \in stored : BcryptCompare(TokenString(tok), r.token)}

----------------------------------------------------------------------------
(* generateTokens *)

\* generateTokens reads the clock four times before its first await: in the sign of the
\* access token (iat), in the payload of the refresh token (tokenVersion: Date.now()), in
\* the sign of the refresh token (iat) and in new Date() for expiresAt.  The readings of
\* one call are in this order, and the clock can step between two of them.
ReadsAt(t) == [access |-> t, version |-> t, refresh |-> t, expires |-> t]

\* the readings of a call during which the clock steps from t to t + d after k readings
ReadsAcross(t, d, k) ==
    [access |-> t,
     version |-> IF k >= 2 THEN t ELSE t + d,
     refresh |-> IF k >= 3 THEN t ELSE t + d,
     expires |-> t + d]

\* the readings generateTokens can take when it starts at the current clock reading: all
\* the same, or, while the clock can still step, with a step of one of steps among them
ClockReads(steps) ==
    {ReadsAt(now)} \cup
    (IF ticks < MaxTicks THEN {ReadsAcross(now, d, k) : d \in steps, k \in 1 .. 3} ELSE {})

NewRefreshToken(c, uid, rd) ==
    JwtSign(uid, "refresh", rd.version, c.JWT_REFRESH_SECRET,
            SpanSeconds(c.JWT_REFRESH_EXPIRES_IN), rd.refresh)

NewAccessToken(c, uid, rd) ==
    JwtSign(uid, "none", 0, c.JWT_SECRET, ACCESS_TTL_SEC, rd.access)

\* expiresAt.setDate(expiresAt.getDate() + days): the same local time of day, days
\* calendar days later.  In zone tz the local clock moves by tz.delta at the instant
\* tz.at, so a step across that instant is shorter or longer than days * DAY_MS.
AddDays(tz, t, days) ==
    LET plain == t + days * DAY_MS
    IN  IF t < tz.at /\ plain - tz.delta >= tz.at
        THEN plain - tz.delta
        ELSE plain

NewRow(c, id, uid, rd) ==
    [id |-> id,
     token |-> BcryptHash(TokenString(NewRefreshToken(c, uid, rd)), id, BCRYPT_TOKEN_ROUNDS),
     userId |-> uid,
     expiresAt |-> AddDays(c.TZ, rd.expires, ParseIntDays(c.JWT_REFRESH_EXPIRES_IN))]

NextRowId == Cardinality(issued) + 1

\* the table and the history after refreshToken.create inserted, into table rws, the row
\* that generateTokens(user) computed from the clock readings rd
GenerateTokensAt(rws, uid, rd) ==
    /\ rows' = rws \cup {NewRow(cfg, NextRowId, uid, rd)}
    /\ issued' = issued \cup {[token |-> NewRefreshToken(cfg, uid, rd),
                                access |-> NewAccessToken(cfg, uid, rd),
                                rowId |-> NextRowId]}

----------------------------------------------------------------------------
(* Outcomes: what the caller receives (kind, msg, user, the token pair),   *)
(* and, for the record, the request (op, email, presented), the row that   *)
(* refresh matched and the clock reading of the request.                   *)

Outcome(op, ok, kind, msg, email, uid, presented, refreshToken, accessToken, matched) ==
    [op |-> op, ok |-> ok, kind |-> kind, msg |-> msg, email |-> email, user |-> uid,
     presented |-> presented, refreshToken |-> refreshToken, accessToken |-> accessToken,
     matched |-> matched, at |-> now]

NoOutcome ==
    [op |-> "none", ok |-> FALSE, kind |-> "none", msg |-> "", email |-> "", user |-> 0,
     presented |-> NoToken, refreshToken |-> NoToken, accessToken |-> NoToken,
     matched |-> NoRow, at |-> 0]

\* the token pair that generateTokens signed with the clock readings rd is returned
SuccessAt(op, email, uid, presented, matched, rd) ==
    Outcome(op, TRUE, "OK", "", email, uid, presented,
            NewRefreshToken(cfg, uid, rd), NewAccessToken(cfg, uid, rd), matched)

Success(op, email, uid, presented, matched) ==
    SuccessAt(op, email, uid, presented, matched, ReadsAt(now))

Failure(op, kind, msg, email, uid, presented) ==
    Outcome(op, FALSE, kind, msg, email, uid, presented, NoToken, NoToken, NoRow)

----------------------------------------------------------------------------
(* Configurations that pass EnvSchema: both secrets have 32 characters or  *)
(* more, and nothing requires them to differ; the refresh life time is any *)
(* string.                                                                 *)

\* the time zone of the process: no clock change, or one where the local clock is set
\* forward by an hour at DST_AT (a zone where it is set back has delta = -HOUR_MS)
UTC == [at |-> 0, delta |-> 0]
SpringForward == [at |-> DST_AT, delta |-> HOUR_MS]

\* equal secrets are explored with a life time in days, the zone with a clock change with
\* distinct secrets and a life time in weeks
Configs ==
    { c \in [JWT_SECRET : {"access-secret-of-32-characters!!", "refresh-secret-of-32-characters!"},
             JWT_REFRESH_SECRET : {"refresh-secret-of-32-characters!"},
             JWT_REFRESH_EXPIRES_IN : {[n |-> 1, unit |-> "d"], [n |-> 1, unit |-> "w"]},
             BCRYPT_SALT_ROUNDS : {DEFAULT_SALT_ROUNDS},
             TZ : {UTC, SpringForward}] :
        /\ c.JWT_SECRET = c.JWT_REFRESH_SECRET => c.JWT_REFRESH_EXPIRES_IN.unit = "d"
        /\ c.TZ # UTC => (/\ c.JWT_SECRET # c.JWT_REFRESH_SECRET
                          /\ c.JWT_REFRESH_EXPIRES_IN.unit = "w") }

\* history: the tables and the clock when a request arrived
NoSnapshot == [users |-> {}, rows |-> {}, now |-> 0]
Snapshot == [users |-> users, rows |-> rows, now |-> now]

\* a request slot that has served no request.  pc names the awaited call the request is
\* suspended at; n numbers the request; gte is the clock reading in the filter of findMany,
\* stored the rows findMany returned, left those that the compare loop has not reached,
\* valid the result of bcrypt.compare in login, signedAt the clock readings with which
\* generateTokens signed the tokens and computed expiresAt, fields the fields that the
\* dto of a post update holds.  History: overlap holds the numbers of the requests that
\* were in flight together with this one, revoked tells that every row of the subject was
\* deleted while this refresh was in flight, before is the state on arrival
IdleProc ==
    [pc |-> "idle", op |-> "none", n |-> 0, tok |-> NoToken, email |-> "", password |-> <<>>,
     name |-> "", uid |-> 0, valid |-> FALSE, gte |-> 0, stored |-> {}, left |-> {},
     matched |-> NoRow, signedAt |-> ReadsAt(0), id |-> 0, fields |-> {}, title |-> "",
     published |-> FALSE, out |-> NoOutcome, outage |-> FALSE, overlap |-> {}, revoked |-> FALSE,
     before |-> NoSnapshot]

\* request.user of a request that was not authenticated
NoProfile == [id |-> 0, email |-> "", name |-> ""]

\* no bearer token checked yet; n is the number of the request that was checked
NoGuard == [n |-> 0, ok |-> FALSE, kind |-> "", token |-> NoToken, user |-> NoProfile]

\* no post request completed yet
NoPost == [id |-> 0, title |-> "", published |-> FALSE, authorId |-> 0, createdAt |-> 0]
NoPostOutcome ==
    [n |-> 0, op |-> "", ok |-> FALSE, kind |-> "", msg |-> <<>>, caller |-> 0, id |-> 0,
     post |-> NoPost, list |-> <<>>]

Init ==
    /\ cfg \in Configs
    /\ now = 0
    /\ users = {}
    /\ rows = {}
    /\ issued = {}
    /\ consumed = {}
    /\ res = NoOutcome
    /\ seq = 0
    /\ ticks = 0
    /\ procs = [p \in Procs |-> IdleProc]
    /\ hook = "idle"
    /\ guard = NoGuard
    /\ posts = {}
    /\ removed = {}
    /\ postRes = NoPostOutcome

----------------------------------------------------------------------------
(* What a client can send to /auth/refresh: a refresh token it was given,  *)
(* the access token that was issued with it, or a token it signed itself.  *)

IssuedTokens == {e.token : e \in issued}
AccessTokens == {e.access : e \in issued}
Forged(t) == [t EXCEPT !.key = "attacker-key"]
Presentable == IssuedTokens \cup AccessTokens \cup {Forged(t) : t \in IssuedTokens}

EmailOf(uid) == IF \E u \in users : u.id = uid
                THEN (CHOOSE u \in users : u.id = uid).email
                ELSE ""

----------------------------------------------------------------------------
(* Requests.  A handler returns to the event loop at each await; every     *)
(* action below is one stretch of a handler between two awaits: it is      *)
(* taken when the awaited call resolves (the store serves it, or bcrypt    *)
(* has computed), and runs the handler up to its next await or to its end. *)
(* The stretch from the arrival of a request to its first await is taken   *)
(* together with the answer of that first call when the stretch reads      *)
(* nothing (register, login, logout, the guard, PostService); refresh      *)
(* verifies the token and reads the clock before its first await, and      *)
(* arrives in a step of its own.  Every clock reading is taken in the      *)
(* stretch where the code reads the clock.  A call on the store can be     *)
(* rejected, when the store cannot be reached: the write calls and         *)
(* findMany of refresh take the outcome as a parameter.                    *)
(*                                                                         *)
(* A request occupies a slot of procs from its arrival to its end; the     *)
(* record of a request that ended stays in its slot until the next request *)
(* takes the slot.  A specification that draws its slots from OneProc      *)
(* serves one request at a time, one that draws them from Procs two.       *)

InFlight(p) == procs[p].pc \notin {"idle", "done"}

\* slot p can take the next request: it is the first slot that is not in use
CanArrive(p) ==
    /\ ~ InFlight(p)
    /\ \A q \in Procs : q < p => InFlight(q)
    /\ seq < MaxOps

\* the slots after a request arrived in slot p and ran to its first suspension, or to its
\* end, which leaves it as rec
Arrived(p, rec) ==
    [q \in Procs |->
        IF q = p
        THEN [rec EXCEPT !.n = seq + 1,
                         !.overlap = {procs[o].n : o \in {x \in Procs \ {p} : InFlight(x)}},
                         !.before = IF rec.pc = "done" THEN NoSnapshot ELSE Snapshot]
        ELSE IF InFlight(q)
        THEN [procs[q] EXCEPT !.overlap = @ \cup {seq + 1}]
        ELSE procs[q]]

Arrive(p, rec) ==
    /\ CanArrive(p)
    /\ seq' = seq + 1
    /\ procs' = Arrived(p, rec)

\* the slots ps after every row of user uid was deleted
Revoked(ps, uid) ==
    [q \in Procs |->
        IF ps[q].pc \notin {"idle", "done"} /\ ps[q].op = "refresh" /\ ps[q].tok.sub = uid
        THEN [ps[q] EXCEPT !.revoked = TRUE]
        ELSE ps[q]]

\* request p is suspended at the awaited call pc of handler op
At(p, op, pc) == procs[p].op = op /\ procs[p].pc = pc

\* request p ends: out is returned or thrown
Finish(p, out) ==
    /\ procs' = [procs EXCEPT ![p].pc = "done", ![p].out = out, ![p].before = NoSnapshot]
    /\ res' = out

\* the rejection of a call on the store that cannot be reached; the handlers do not
\* catch it, and the framework answers 500
StoreFailureOf(op, email, uid, tok) ==
    Failure(op, "InternalServerError", "Internal server error", email, uid, tok)

StoreFailure(tok) == StoreFailureOf("refresh", "", tok.sub, tok)

\* request p ends with the rejection of its store call
Rejected(p, out) ==
    /\ procs' = [procs EXCEPT ![p].pc = "done", ![p].out = out, ![p].outage = TRUE,
                              ![p].before = NoSnapshot]
    /\ res' = out

\* the clock after generateTokens took the readings rd
ClockAfter(rd) ==
    /\ now' = rd.expires
    /\ ticks' = IF rd.expires = now THEN ticks ELSE ticks + 1

----------------------------------------------------------------------------
(* generateTokens, from its first await on *)

\* refresh_tokens.userId references users.id
ForeignKeyViolation(us, uid) == \A u \in us : u.id # uid

\* the failure of prisma.refreshToken.create for a user that is no longer stored
ForeignKeyFailed(r) ==
    Failure(r.op, "InternalServerError", "Foreign key constraint failed on the field: userId",
            r.email, r.uid, r.tok)

\* await bcrypt.hash(refreshToken, 10) resolves; refreshToken.create is called
GenerateTokensHash(p) ==
    /\ procs[p].pc = "tokenHash"
    /\ procs' = [procs EXCEPT ![p].pc = "tokenCreate"]
    /\ UNCHANGED <<ext, cfg, now, ticks, users, rows, issued, consumed, res, seq>>

\* await refreshToken.create of the row computed when the tokens were signed; the token
\* pair and the user are returned
GenerateTokensCreate(p, outage) ==
    /\ procs[p].pc = "tokenCreate"
    /\ LET r == procs[p]
       IN  IF outage
           THEN /\ Rejected(p, IF r.op = "refresh"
                               THEN StoreFailure(r.tok)
                               ELSE StoreFailureOf(r.op, r.email, 0, NoToken))
                /\ UNCHANGED <<rows, issued, consumed>>
           ELSE IF ForeignKeyViolation(users, r.uid)
           THEN /\ Finish(p, ForeignKeyFailed(r))
                /\ UNCHANGED <<rows, issued, consumed>>
           ELSE /\ GenerateTokensAt(rows, r.uid, r.signedAt)
                /\ consumed' = IF r.op = "refresh" THEN consumed \cup {r.tok} ELSE consumed
                /\ Finish(p, SuccessAt(r.op, r.email, r.uid, r.tok, r.matched, r.signedAt))
    /\ UNCHANGED <<ext, cfg, now, ticks, users, seq>>

----------------------------------------------------------------------------
(* AuthService.register *)

\* the id of the next user: ids are uuids, never handed out twice
NextUserId == Cardinality({u.id : u \in users} \cup {e.token.sub : e \in issued}
                           \cup ({procs[p].uid : p \in Procs} \ {0})) + 1

\* mutant: the password is stored as it was sent
NewUser_Plain(c, uid, email, password, name) ==
    [id |-> uid, email |-> email, name |-> name, password |-> PasswordString(password)]

\* the record written by prisma.user.create in register
NewUser(c, uid, email, password, name) ==
    [id |-> uid, email |-> email, name |-> name,
     password |-> BcryptHash(PasswordString(password), uid, c.BCRYPT_SALT_ROUNDS)]

\* mutant: the users table has no unique index on email
UniqueEmailViolation_Off(us, email) == FALSE

\* the unique index on users.email refuses a second user with the same email
UniqueEmailViolation(us, email) == \E u \in us : u.email = email

\* the failure of prisma.user.create on a taken email, which register does not catch
UniqueConstraintFailed(email) ==
    Failure("register", "InternalServerError",
            "Unique constraint failed on the fields: (email)", email, 0, NoToken)

\* the request arrives; await findUnique by email; bcrypt.hash is called for a free email
RegisterFind(p, email, password, name) ==
    /\ Arrive(p, IF FindUserByEmail(users, email) # {}
                 THEN [IdleProc EXCEPT !.pc = "done", !.op = "register", !.email = email,
                          !.password = password, !.name = name,
                          !.out = Failure("register", "Conflict", "Email already exists",
                                          email, 0, NoToken)]
                 ELSE [IdleProc EXCEPT !.pc = "hash", !.op = "register", !.email = email,
                          !.password = password, !.name = name])
    /\ res' = IF FindUserByEmail(users, email) # {}
              THEN Failure("register", "Conflict", "Email already exists", email, 0, NoToken)
              ELSE res
    /\ UNCHANGED <<ext, cfg, now, ticks, users, rows, issued, consumed>>

\* await bcrypt.hash(dto.password, saltRounds) resolves; user.create is called
RegisterHash(p) ==
    /\ At(p, "register", "hash")
    /\ procs' = [procs EXCEPT ![p].pc = "create"]
    /\ UNCHANGED <<ext, cfg, now, ticks, users, rows, issued, consumed, res, seq>>

\* await prisma.user.create.  When it resolves, generateTokens signs the two tokens and
\* computes expiresAt, with the clock readings rd, and calls bcrypt.hash
RegisterCreate(p, outage, rd) ==
    /\ At(p, "register", "create")
    /\ LET r == procs[p]
       IN  IF outage
           THEN /\ Rejected(p, StoreFailureOf("register", r.email, 0, NoToken))
                /\ UNCHANGED <<users, now, ticks>>
           ELSE IF UniqueEmailViolation(users, r.email)
           THEN /\ Finish(p, UniqueConstraintFailed(r.email))
                /\ UNCHANGED <<users, now, ticks>>
           ELSE /\ users' = users \cup {NewUser(cfg, NextUserId, r.email, r.password, r.name)}
                /\ procs' = [procs EXCEPT ![p].pc = "tokenHash", ![p].uid = NextUserId,
                                          ![p].signedAt = rd]
                /\ ClockAfter(rd)
                /\ UNCHANGED res
    /\ UNCHANGED <<ext, cfg, rows, issued, consumed, seq>>

----------------------------------------------------------------------------
(* AuthService.login *)

\* mutant: the missing user is reported with its own message
LoginCheck_Leaky(us, email, password) ==
    IF FindUserByEmail(us, email) = {}
    THEN Failure("login", "Unauthorized", "User not found", email, 0, NoToken)
    ELSE LET user == CHOOSE u \in us : u.email = email
         IN  IF ~ BcryptCompare(PasswordString(password), user.password)
             THEN Failure("login", "Unauthorized", "Invalid credentials", email, 0, NoToken)
             ELSE Success("login", email, user.id, NoToken, NoRow)

\* the outcome of AuthService.login before tokens are generated
LoginCheck(us, email, password) ==
    IF FindUserByEmail(us, email) = {}
    THEN Failure("login", "Unauthorized", "Invalid credentials", email, 0, NoToken)
    ELSE LET user == CHOOSE u \in us : u.email = email
         IN  IF ~ BcryptCompare(PasswordString(password), user.password)
             THEN Failure("login", "Unauthorized", "Invalid credentials", email, 0, NoToken)
             ELSE Success("login", email, user.id, NoToken, NoRow)

\* the request arrives; await findUnique by email.  Without a user the request ends;
\* otherwise bcrypt.compare is called with the password hash of the user that was found
LoginFind(p, email, password) ==
    /\ Arrive(p, IF FindUserByEmail(users, email) = {}
                 THEN [IdleProc EXCEPT !.pc = "done", !.op = "login", !.email = email,
                                       !.password = password,
                                       !.out = LoginCheck(users, email, password)]
                 ELSE [IdleProc EXCEPT !.pc = "compare", !.op = "login", !.email = email,
                                       !.password = password,
                                       !.uid = (CHOOSE u \in users : u.email = email).id,
                                       !.valid = LoginCheck(users, email, password).ok,
                                       !.out = LoginCheck(users, email, password)])
    /\ res' = IF FindUserByEmail(users, email) = {}
              THEN LoginCheck(users, email, password)
              ELSE res
    /\ UNCHANGED <<ext, cfg, now, ticks, users, rows, issued, consumed>>

\* await bcrypt.compare resolves; when the password is valid, generateTokens signs the two
\* tokens and computes expiresAt, with the clock readings rd, and calls bcrypt.hash
LoginCompare(p, rd) ==
    /\ At(p, "login", "compare")
    /\ IF ~ procs[p].valid
       THEN /\ Finish(p, [procs[p].out EXCEPT !.at = now])
            /\ UNCHANGED <<now, ticks>>
       ELSE /\ procs' = [procs EXCEPT ![p].pc = "tokenHash", ![p].signedAt = rd,
                                      ![p].out = NoOutcome]
            /\ ClockAfter(rd)
            /\ UNCHANGED res
    /\ UNCHANGED <<ext, cfg, users, rows, issued, consumed, seq>>

----------------------------------------------------------------------------
(* AuthService.refresh *)

\* steps 1 and 2 of AuthService.refresh, jwtService.verify reading the clock at t: the
\* failure, if the token is rejected
VerifyFailureAt(tok, t) ==
    IF ~ JwtVerify(tok, cfg.JWT_REFRESH_SECRET, t)
    THEN Failure("refresh", "Unauthorized", "Invalid refresh token", "", 0, tok)
    ELSE IF tok.type # "refresh"
    THEN Failure("refresh", "Unauthorized", "Invalid token type", "", 0, tok)
    ELSE NoOutcome

\* steps 1 and 2 of AuthService.refresh at the current clock reading
VerifyFailure(tok) == VerifyFailureAt(tok, now)

\* refresh reads the clock twice before its first await: in jwtService.verify and in
\* new Date() for the filter of findMany.  The clock can step between the two
ArrivalAt(t) == [verify |-> t, gte |-> t]

\* the readings of an arrival during which the clock steps from t to t + d
ArrivalAcross(t, d) == [verify |-> t, gte |-> t + d]

\* the readings refresh can take when it arrives at the current clock reading
ArrivalReads(steps) ==
    {ArrivalAt(now)} \cup
    (IF ticks < MaxTicks THEN {ArrivalAcross(now, d) : d \in steps} ELSE {})

\* mutant: the missing session is reported as NotFound
NoSessionFailure_NotFound(tok) ==
    Failure("refresh", "NotFound", "No valid refresh token found", "", tok.sub, tok)

\* step 3 of AuthService.refresh: the subject has no unexpired row
NoSessionFailure(tok) ==
    Failure("refresh", "Unauthorized", "No valid refresh token found", "", tok.sub, tok)

\* step 4 of AuthService.refresh: no stored hash matches the presented token
ReuseFailure(tok) ==
    Failure("refresh", "Unauthorized",
            "Token reuse detected - all sessions revoked for security", "", tok.sub, tok)

\* the failure of prisma.refreshToken.delete on a row that is no longer stored
RecordNotFound(tok) ==
    Failure("refresh", "InternalServerError", "Record to delete does not exist", "", tok.sub, tok)

\* mutant: the replaced row stays in the table
DeleteRow_Keep(rws, r) == rws

\* prisma.refreshToken.delete({where: {id}})
DeleteRow(rws, r) == {x \in rws : x.id # r.id}

\* mutant: the store is read before the token is checked
RefreshStart_ReadFirst(p, tok, rd) ==
    /\ Arrive(p, [IdleProc EXCEPT !.pc = "find", !.op = "refresh", !.tok = tok,
                                  !.out = VerifyFailureAt(tok, rd.verify), !.gte = rd.gte])
    /\ now' = rd.gte
    /\ ticks' = IF rd.gte = now THEN ticks ELSE ticks + 1
    /\ UNCHANGED <<ext, cfg, users, rows, issued, consumed, res>>

\* the request arrives; jwtService.verify, which reads the clock (rd.verify), and the type
\* check run without suspension; a rejected token ends the request.  Otherwise findMany is
\* called with a second clock reading (rd.gte) in its filter
RefreshStart(p, tok, rd) ==
    /\ Arrive(p, IF VerifyFailureAt(tok, rd.verify) # NoOutcome
                 THEN [IdleProc EXCEPT !.pc = "done", !.op = "refresh", !.tok = tok,
                                       !.out = VerifyFailureAt(tok, rd.verify)]
                 ELSE [IdleProc EXCEPT !.pc = "find", !.op = "refresh", !.tok = tok,
                                       !.gte = rd.gte])
    /\ res' = IF VerifyFailureAt(tok, rd.verify) # NoOutcome
              THEN VerifyFailureAt(tok, rd.verify)
              ELSE res
    /\ IF VerifyFailureAt(tok, rd.verify) # NoOutcome
       THEN UNCHANGED <<now, ticks>>
       ELSE /\ now' = rd.gte
            /\ ticks' = IF rd.gte = now THEN ticks ELSE ticks + 1
    /\ UNCHANGED <<ext, cfg, users, rows, issued, consumed>>

\* mutant: a findMany that fails is taken for a findMany that matched nothing
RefreshFind_OutageAsNoMatch(p, outage) ==
    /\ At(p, "refresh", "find")
    /\ LET tok == procs[p].tok
           stored == FindValid(rows, tok.sub, procs[p].gte)
       IN  IF outage
           THEN /\ procs' = [procs EXCEPT ![p].pc = "write", ![p].outage = TRUE]
                /\ UNCHANGED res
           ELSE IF stored = {}
           THEN Finish(p, NoSessionFailure(tok))
           ELSE /\ procs' = [procs EXCEPT ![p].pc = "compare", ![p].stored = stored,
                                          ![p].left = stored, ![p].uid = tok.sub,
                                          ![p].email = EmailOf(tok.sub)]
                /\ UNCHANGED res
    /\ UNCHANGED <<ext, cfg, now, ticks, users, rows, issued, consumed, seq>>

\* await findMany, which returns the rows (with their user) that were unexpired at the
\* clock reading taken when it was called, or rejects when the store is out; with rows,
\* bcrypt.compare is called for the first of them
RefreshFind(p, outage) ==
    /\ At(p, "refresh", "find")
    /\ LET tok == procs[p].tok
           stored == FindValid(rows, tok.sub, procs[p].gte)
       IN  IF outage
           THEN Rejected(p, StoreFailure(tok))
           ELSE IF stored = {}
           THEN Finish(p, NoSessionFailure(tok))
           ELSE /\ procs' = [procs EXCEPT ![p].pc = "compare", ![p].stored = stored,
                                          ![p].left = stored, ![p].uid = tok.sub,
                                          ![p].email = EmailOf(tok.sub)]
                /\ UNCHANGED res
    /\ UNCHANGED <<ext, cfg, now, ticks, users, rows, issued, consumed, seq>>

\* await bcrypt.compare of the presented token with the next row resolves.  findMany has
\* no orderBy: any row that was not compared yet can be the next one.  On a match the loop
\* ends and delete is called; after the last row without a match deleteMany is called;
\* otherwise bcrypt.compare is called for the row that follows
RefreshCompare(p) ==
    /\ At(p, "refresh", "compare")
    /\ \E r \in procs[p].left :
          IF BcryptCompare(TokenString(procs[p].tok), r.token)
          THEN procs' = [procs EXCEPT ![p].pc = "write", ![p].matched = r]
          ELSE IF procs[p].left = {r}
          THEN procs' = [procs EXCEPT ![p].pc = "write", ![p].left = {}]
          ELSE procs' = [procs EXCEPT ![p].left = @ \ {r}]
    /\ UNCHANGED <<ext, cfg, now, ticks, users, rows, issued, consumed, res, seq>>

\* await deleteMany (no row matched), after which the request ends, or await delete (the
\* matched row), which throws when the row is no longer in the table.  When delete
\* resolves, generateTokens signs the two tokens and computes expiresAt, with the clock
\* readings rd, and calls bcrypt.hash
RefreshWrite(p, outage, rd) ==
    /\ At(p, "refresh", "write")
    /\ LET tok == procs[p].tok
           m == procs[p].matched
       IN  IF outage
           THEN /\ Rejected(p, StoreFailure(tok))
                /\ UNCHANGED <<rows, now, ticks>>
           ELSE IF m = NoRow
           THEN /\ rows' = rows \ RowsOf(rows, tok.sub)
                /\ procs' = [Revoked(procs, tok.sub) EXCEPT
                                ![p].pc = "done", ![p].out = ReuseFailure(tok),
                                ![p].before = NoSnapshot, ![p].revoked = FALSE]
                /\ res' = ReuseFailure(tok)
                /\ UNCHANGED <<now, ticks>>
           ELSE IF m \notin rows
           THEN /\ Finish(p, RecordNotFound(tok))
                /\ UNCHANGED <<rows, now, ticks>>
           ELSE /\ rows' = DeleteRow(rows, m)
                /\ procs' = [procs EXCEPT ![p].pc = "tokenHash", ![p].signedAt = rd]
                /\ ClockAfter(rd)
                /\ UNCHANGED res
    /\ UNCHANGED <<ext, cfg, users, issued, consumed, seq>>

----------------------------------------------------------------------------
(* AuthService.logout *)

\* the answer of a logout that was served
LoggedOut(uid) ==
    Outcome("logout", TRUE, "OK", "Logged out successfully", "", uid,
            NoToken, NoToken, NoToken, NoRow)

\* mutant: only one of the user's rows is deleted
Logout_OneDevice(p, uid, outage) ==
    /\ CanArrive(p)
    /\ seq' = seq + 1
    /\ IF outage
       THEN /\ rows' = rows
            /\ res' = StoreFailureOf("logout", "", uid, NoToken)
            /\ procs' = Arrived(p, [IdleProc EXCEPT !.pc = "done", !.op = "logout",
                                                    !.uid = uid, !.out = res',
                                                    !.outage = TRUE])
       ELSE /\ rows' = IF RowsOf(rows, uid) = {}
                       THEN rows
                       ELSE rows \ {CHOOSE r \in RowsOf(rows, uid) : TRUE}
            /\ res' = LoggedOut(uid)
            /\ procs' = Revoked(Arrived(p, [IdleProc EXCEPT !.pc = "done", !.op = "logout",
                                                            !.uid = uid, !.out = res']), uid)
    /\ UNCHANGED <<ext, cfg, now, ticks, users, issued, consumed>>

\* the request arrives; await deleteMany of the rows of the user.  logout does not catch
\* the rejection of deleteMany: the rows stay and the framework answers 500
Logout(p, uid, outage) ==
    /\ CanArrive(p)
    /\ seq' = seq + 1
    /\ IF outage
       THEN /\ rows' = rows
            /\ res' = StoreFailureOf("logout", "", uid, NoToken)
            /\ procs' = Arrived(p, [IdleProc EXCEPT !.pc = "done", !.op = "logout",
                                                    !.uid = uid, !.out = res',
                                                    !.outage = TRUE])
       ELSE /\ rows' = rows \ RowsOf(rows, uid)
            /\ res' = LoggedOut(uid)
            /\ procs' = Revoked(Arrived(p, [IdleProc EXCEPT !.pc = "done", !.op = "logout",
                                                            !.uid = uid, !.out = res']), uid)
    /\ UNCHANGED <<ext, cfg, now, ticks, users, issued, consumed>>

----------------------------------------------------------------------------
\* the clock advances by 1 ms or by a day
Tick(d) ==
    /\ ticks < MaxTicks
    /\ ticks' = ticks + 1
    /\ now' = now + d
    /\ UNCHANGED <<ext, cfg, users, rows, issued, consumed, res, seq, procs>>

TickSteps == {1, DAY_MS}

\* clock steps between the two readings of an arrival of refresh: as between requests, or
\* a day and 1 ms, which takes the clock from the issue of a one-day token past its expiry
ArrivalSteps == TickSteps \cup {DAY_MS + 1}

\* the outcomes of a call on the store: served, or rejected because the store is out
StoreUp == {FALSE}
StoreUpOrOut == BOOLEAN

----------------------------------------------------------------------------
(* Sequential use: one request at a time, and the store answers every call *)

OneProc == {1}

Next ==
    \/ \E p \in OneProc, e \in Emails, pw \in RegisterPasswords, n \in RegisterNames :
          RegisterFind(p, e, pw, n)
    \/ \E p \in OneProc : RegisterHash(p)
    \/ \E p \in OneProc, o \in StoreUp, rd \in ClockReads(TickSteps) : RegisterCreate(p, o, rd)
    \/ \E p \in OneProc, e \in Emails, pw \in Passwords : LoginFind(p, e, pw)
    \/ \E p \in OneProc, rd \in ClockReads(TickSteps) : LoginCompare(p, rd)
    \/ \E p \in OneProc, t \in Presentable, rd \in ArrivalReads(ArrivalSteps) :
          RefreshStart(p, t, rd)
    \/ \E p \in OneProc, o \in StoreUp : RefreshFind(p, o)
    \/ \E p \in OneProc : RefreshCompare(p)
    \/ \E p \in OneProc, o \in StoreUp, rd \in ClockReads(TickSteps) : RefreshWrite(p, o, rd)
    \/ \E p \in OneProc : GenerateTokensHash(p)
    \/ \E p \in OneProc, o \in StoreUp : GenerateTokensCreate(p, o)
    \/ \E p \in OneProc, u \in users, o \in StoreUp : Logout(p, u.id, o)
    \/ \E d \in TickSteps : Tick(d)

Spec == Init /\ [][Next]_vars

----------------------------------------------------------------------------
(* Two requests at a time: their stretches interleave with each other and  *)
(* with the clock, and the store can reject a call.                        *)

\* one configuration is explored
InitConc ==
    /\ Init
    /\ cfg.JWT_SECRET # cfg.JWT_REFRESH_SECRET
    /\ cfg.JWT_REFRESH_EXPIRES_IN.unit = "d"
    /\ cfg.TZ = UTC

ConcEmails == {"alice@example.com"}     \* the requests of one user are followed
ConcPasswords == {LongPasswordB}
ConcTickSteps == {1}

NextConc ==
    \/ \E p \in Procs, e \in ConcEmails, pw \in RegisterPasswords, n \in RegisterNames :
          RegisterFind(p, e, pw, n)
    \/ \E p \in Procs : RegisterHash(p)
    \/ \E p \in Procs, o \in StoreUpOrOut, rd \in ClockReads(ConcTickSteps) :
          RegisterCreate(p, o, rd)
    \/ \E p \in Procs, e \in ConcEmails, pw \in ConcPasswords : LoginFind(p, e, pw)
    \/ \E p \in Procs, rd \in ClockReads(ConcTickSteps) : LoginCompare(p, rd)
    \/ \E p \in Procs, t \in IssuedTokens, rd \in ArrivalReads(ConcTickSteps) :
          RefreshStart(p, t, rd)
    \/ \E p \in Procs, o \in StoreUpOrOut : RefreshFind(p, o)
    \/ \E p \in Procs : RefreshCompare(p)
    \/ \E p \in Procs, o \in StoreUpOrOut, rd \in ClockReads(ConcTickSteps) :
          RefreshWrite(p, o, rd)
    \/ \E p \in Procs : GenerateTokensHash(p)
    \/ \E p \in Procs, o \in StoreUpOrOut : GenerateTokensCreate(p, o)
    \/ \E p \in Procs, u \in users, o \in StoreUpOrOut : Logout(p, u.id, o)
    \/ \E d \in ConcTickSteps : Tick(d)

SpecConc == InitConc /\ [][NextConc]_vars

----------------------------------------------------------------------------
(* One request at a time, and the store can reject any call that writes,   *)
(* and the findMany of refresh.                                            *)

\* a password that is right for the registered users and one that is wrong
StorePasswords == {LongPasswordB, WrongPassword}

NextStore ==
    \/ \E p \in OneProc, e \in Emails, pw \in RegisterPasswords, n \in RegisterNames :
          RegisterFind(p, e, pw, n)
    \/ \E p \in OneProc : RegisterHash(p)
    \/ \E p \in OneProc, o \in StoreUpOrOut, rd \in ClockReads(TickSteps) :
          RegisterCreate(p, o, rd)
    \/ \E p \in OneProc, e \in Emails, pw \in StorePasswords : LoginFind(p, e, pw)
    \/ \E p \in OneProc, rd \in ClockReads(TickSteps) : LoginCompare(p, rd)
    \/ \E p \in OneProc, t \in Presentable, rd \in ArrivalReads(ArrivalSteps) :
          RefreshStart(p, t, rd)
    \/ \E p \in OneProc, o \in StoreUpOrOut : RefreshFind(p, o)
    \/ \E p \in OneProc : RefreshCompare(p)
    \/ \E p \in OneProc, o \in StoreUpOrOut, rd \in ClockReads(TickSteps) :
          RefreshWrite(p, o, rd)
    \/ \E p \in OneProc : GenerateTokensHash(p)
    \/ \E p \in OneProc, o \in StoreUpOrOut : GenerateTokensCreate(p, o)
    \/ \E p \in OneProc, u \in users, o \in StoreUpOrOut : Logout(p, u.id, o)
    \/ \E d \in TickSteps : Tick(d)

SpecStore == Init /\ [][NextStore]_vars

----------------------------------------------------------------------------
(* Two register requests at a time *)

NextReg ==
    \/ \E p \in Procs, e \in Emails, pw \in SpecRegPasswords, n \in RegisterNames :
          RegisterFind(p, e, pw, n)
    \/ \E p \in Procs : RegisterHash(p)
    \/ \E p \in Procs, o \in StoreUpOrOut, rd \in ClockReads(ConcTickSteps) :
          RegisterCreate(p, o, rd)
    \/ \E p \in Procs : GenerateTokensHash(p)
    \/ \E p \in Procs, o \in StoreUpOrOut : GenerateTokensCreate(p, o)
    \/ \E d \in ConcTickSteps : Tick(d)

SpecReg == InitConc /\ [][NextReg]_vars

----------------------------------------------------------------------------
(* The JWT guard of the protected routes: when the request arrives,        *)
(* passport-jwt verifies the bearer token with JWT_SECRET and checks its   *)
(* expiry; then JwtStrategy.validate awaits the lookup of the subject, and *)
(* the handler of the route runs with the profile as request.user.  Users  *)
(* disappear when the tables are cleared, in two awaited calls; their rows *)
(* and posts go with them (onDelete: Cascade).                             *)

\* mutant: the whole user record is returned
ValidateUser_Full(us, uid) == {u \in us : u.id = uid}

\* AuthService.validateUser: findUnique by id, select id, email, name; empty when null
ValidateUser(us, uid) ==
    {[id |-> u.id, email |-> u.email, name |-> u.name] : u \in {v \in us : v.id = uid}}

\* the guard refuses request n, which carries bearer token tok: UnauthorizedException
Refused(n, tok) ==
    [n |-> n, ok |-> FALSE, kind |-> "Unauthorized", token |-> tok, user |-> NoProfile]

\* the request arrives; passport-jwt verifies the signature and the expiry of the bearer
\* token, at the clock reading of that moment and without suspension; for a token that
\* passes, JwtStrategy.validate is called, which awaits validateUser
AuthenticateVerify(p, tok) ==
    /\ Arrive(p, IF JwtVerify(tok, cfg.JWT_SECRET, now)
                 THEN [IdleProc EXCEPT !.pc = "validate", !.op = "authenticate", !.tok = tok]
                 ELSE [IdleProc EXCEPT !.pc = "done", !.op = "authenticate", !.tok = tok])
    /\ guard' = IF JwtVerify(tok, cfg.JWT_SECRET, now) THEN guard ELSE Refused(seq + 1, tok)
    /\ UNCHANGED <<cfg, now, ticks, users, rows, issued, consumed, res,
                   hook, posts, removed, postRes>>

\* await validateUser resolves.  Without a user validate throws UnauthorizedException and
\* the request ends (its slot keeps the tables of its arrival); with one, the profile
\* becomes request.user and the handler of the route runs: PostService.create calls
\* post.create with request.user.id as the author
AuthenticateValidate(p) ==
    /\ At(p, "authenticate", "validate")
    /\ LET tok == procs[p].tok
           found == ValidateUser(users, tok.sub)
       IN  IF found = {}
           THEN /\ guard' = Refused(procs[p].n, tok)
                /\ procs' = [procs EXCEPT ![p].pc = "done"]
           ELSE /\ guard' = [n |-> procs[p].n, ok |-> TRUE, kind |-> "OK", token |-> tok,
                             user |-> CHOOSE u \in found : TRUE]
                /\ procs' = [procs EXCEPT ![p].pc = "write", ![p].op = "create",
                                          ![p].uid = (CHOOSE u \in found : TRUE).id]
    /\ UNCHANGED <<cfg, now, ticks, users, rows, issued, consumed, res, seq,
                   hook, posts, removed, postRes>>

\* await prisma.post.deleteMany(): every post is deleted; user.deleteMany is called
DeletePosts ==
    /\ hook = "idle"
    /\ hook' = "users"
    /\ posts' = {}
    /\ removed' = removed \cup {q.id : q \in posts}
    /\ UNCHANGED <<cfg, now, ticks, users, rows, issued, consumed, res, seq, procs, guard,
                   postRes>>

\* await prisma.user.deleteMany(): every user is deleted, and the rows and posts that
\* reference a user with them
DeleteUsers ==
    /\ hook = "users"
    /\ hook' = "idle"
    /\ users' = {}
    /\ rows' = {}
    /\ posts' = {}
    /\ removed' = removed \cup {q.id : q \in posts}
    /\ UNCHANGED <<cfg, now, ticks, issued, consumed, res, seq, procs, guard, postRes>>

----------------------------------------------------------------------------
(* PostService over the posts table.  The caller's id is request.user.id,  *)
(* set by the JWT guard, so it is the id of a user.  A post carries the    *)
(* fields its handlers read or write: id, title, published, authorId,      *)
(* createdAt.                                                              *)

\* the id of the next post: ids are uuids, never handed out twice
NextPostId == Cardinality({q.id : q \in posts} \cup removed) + 1

\* ids a client can ask for: of a stored post, of a deleted post, of no post ever
PostIds == 1 .. NextPostId

\* the outcome of a PostService request that ends in the step in which it arrived,
\* numbered by the request
PostOutcome(op, ok, kind, msg, caller, id, post, list) ==
    [n |-> seq + 1, op |-> op, ok |-> ok, kind |-> kind, msg |-> msg, caller |-> caller,
     id |-> id, post |-> post, list |-> list]

\* the outcome of request r, which ends in a later step
PostOutcomeOf(r, ok, kind, msg, post) ==
    [n |-> r.n, op |-> r.op, ok |-> ok, kind |-> kind, msg |-> msg, caller |-> r.uid,
     id |-> r.id, post |-> post, list |-> <<>>]

\* prisma.post.findUnique({where: {id}})
FindPost(ps, id) == {q \in ps : q.id = id}

\* the results findMany can return for orderBy createdAt desc: posts with the same
\* createdAt come in any order
OrderedByCreatedAtDesc(ps) ==
    {l \in [1 .. Cardinality(ps) -> ps] :
        /\ \A i, j \in 1 .. Cardinality(ps) : i # j => l[i] # l[j]
        /\ \A i, j \in 1 .. Cardinality(ps) : i < j => l[i].createdAt >= l[j].createdAt}

NotFoundFailure(op, id, uid) ==
    PostOutcome(op, FALSE, "NotFound", <<"Post with ID ", id, " not found">>, uid, id,
                NoPost, <<>>)

\* mutant: the author is not compared with the caller
GuardFailure_NoOwnerCheck(ps, op, id, uid) ==
    IF FindPost(ps, id) = {}
    THEN NotFoundFailure(op, id, uid)
    ELSE NoPostOutcome

\* findOne and the ownership check of update and remove: the failure, if there is one
GuardFailure(ps, op, id, uid) ==
    IF FindPost(ps, id) = {}
    THEN NotFoundFailure(op, id, uid)
    ELSE IF (CHOOSE q \in ps : q.id = id).authorId # uid
    THEN PostOutcome(op, FALSE, "Forbidden",
                     IF op = "update" THEN <<"You can only update your own posts">>
                                      ELSE <<"You can only delete your own posts">>,
                     uid, id, NoPost, <<>>)
    ELSE NoPostOutcome

\* mutant: the row stays in the table
DeletePost_Keep(ps, id) == ps

\* prisma.post.delete({where: {id}})
DeletePost(ps, id) == {q \in ps : q.id # id}

\* the slot of a PostService request that ended in the step in which it arrived
PostDone(op) == [IdleProc EXCEPT !.pc = "done", !.op = op]

\* await prisma.post.create for request r, whose caller is r.uid.  posts.authorId
\* references users.id: for an author that is no longer stored the call is rejected,
\* nothing is stored, and the framework answers 500
PostCreate(r, title, published) ==
    IF ForeignKeyViolation(users, r.uid)
    THEN /\ postRes' = PostOutcomeOf(r, FALSE, "InternalServerError",
                                     <<"Foreign key constraint failed on the field: authorId">>,
                                     NoPost)
         /\ UNCHANGED posts
    ELSE LET post == [id |-> NextPostId, title |-> title, published |-> published,
                      authorId |-> r.uid, createdAt |-> now]
         IN  /\ posts' = posts \cup {post}
             /\ postRes' = [PostOutcomeOf(r, TRUE, "OK", <<>>, post) EXCEPT !.id = post.id]

\* PostService.create: the request arrives; await post.create
CreatePost(p, uid, title, published) ==
    /\ Arrive(p, PostDone("create"))
    /\ PostCreate([PostDone("create") EXCEPT !.n = seq + 1, !.uid = uid], title, published)
    /\ UNCHANGED <<cfg, now, ticks, users, rows, issued, consumed, res, hook, guard, removed>>

\* PostService.create of a request that has passed the guard: await post.create
CreatePostAs(p, title, published) ==
    /\ At(p, "create", "write")
    /\ PostCreate(procs[p], title, published)
    /\ procs' = [procs EXCEPT ![p].pc = "done", ![p].before = NoSnapshot]
    /\ UNCHANGED <<cfg, now, ticks, users, rows, issued, consumed, res, seq, hook, guard,
                   removed>>

\* PostService.findAll(published?); filter is "all" when published is undefined
FindAllPosts(p, filter) ==
    /\ Arrive(p, PostDone("findAll"))
    /\ \E l \in OrderedByCreatedAtDesc(
                 {q \in posts : filter = "all" \/ q.published = (filter = "published")}) :
          postRes' = PostOutcome("findAll", TRUE, "OK", <<>>, 0, 0, NoPost, l)
    /\ UNCHANGED <<cfg, now, ticks, users, rows, issued, consumed, res, hook, guard, posts,
                   removed>>

\* PostService.findOne
FindOnePost(p, id) ==
    /\ Arrive(p, PostDone("findOne"))
    /\ postRes' = IF FindPost(posts, id) = {}
                  THEN NotFoundFailure("findOne", id, 0)
                  ELSE PostOutcome("findOne", TRUE, "OK", <<>>, 0, id,
                                   CHOOSE q \in posts : q.id = id, <<>>)
    /\ UNCHANGED <<cfg, now, ticks, users, rows, issued, consumed, res, hook, guard, posts,
                   removed>>

\* PostService.findByAuthor
FindPostsByAuthor(p, authorId) ==
    /\ Arrive(p, PostDone("findByAuthor"))
    /\ \E l \in OrderedByCreatedAtDesc({q \in posts : q.authorId = authorId}) :
          postRes' = PostOutcome("findByAuthor", TRUE, "OK", <<>>, authorId, 0, NoPost, l)
    /\ UNCHANGED <<cfg, now, ticks, users, rows, issued, consumed, res, hook, guard, posts,
                   removed>>

\* the failure of prisma.post.update or prisma.post.delete on a post that is no longer
\* stored
PostRecordNotFound(r) ==
    PostOutcomeOf(r, FALSE, "InternalServerError",
                  <<"Record to ", r.op, " not found">>, NoPost)

\* the fields of a post that the dto of an update can hold: UpdatePostDto is the partial
\* CreatePostDto
PostFields == {"title", "published"}

\* PostService.update and PostService.remove: the request arrives; await findOne, then
\* the ownership check; post.update or post.delete is called.  The dto of an update holds
\* the fields in fields, with the values title and published
PostFind(p, op, id, uid, fields, title, published) ==
    /\ Arrive(p, IF GuardFailure(posts, op, id, uid) # NoPostOutcome
                 THEN [PostDone(op) EXCEPT !.id = id, !.uid = uid]
                 ELSE [IdleProc EXCEPT !.pc = "write", !.op = op, !.id = id, !.uid = uid,
                                       !.fields = fields,
                                       !.title = IF "title" \in fields THEN title ELSE "",
                                       !.published = "published" \in fields /\ published])
    /\ postRes' = IF GuardFailure(posts, op, id, uid) # NoPostOutcome
                  THEN GuardFailure(posts, op, id, uid)
                  ELSE postRes
    /\ UNCHANGED <<cfg, now, ticks, users, rows, issued, consumed, res, hook, guard, posts,
                   removed>>

\* PostService.update: await post.update with data: dto, which writes the fields that
\* the dto holds, leaves the others as they are, and returns the post as it is stored
UpdatePost(p) ==
    /\ At(p, "update", "write")
    /\ LET r == procs[p]
       IN  IF FindPost(posts, r.id) = {}
           THEN /\ postRes' = PostRecordNotFound(r)
                /\ UNCHANGED posts
           ELSE LET old == CHOOSE q \in posts : q.id = r.id
                    new == [old EXCEPT
                               !.title = IF "title" \in r.fields THEN r.title ELSE @,
                               !.published = IF "published" \in r.fields
                                             THEN r.published ELSE @]
                IN  /\ posts' = (posts \ {old}) \cup {new}
                    /\ postRes' = PostOutcomeOf(r, TRUE, "OK", <<>>, new)
    /\ procs' = [procs EXCEPT ![p].pc = "done", ![p].before = NoSnapshot]
    /\ UNCHANGED <<cfg, now, ticks, users, rows, issued, consumed, res, seq, hook, guard,
                   removed>>

\* PostService.remove: await post.delete
RemovePost(p) ==
    /\ At(p, "remove", "write")
    /\ LET r == procs[p]
       IN  IF FindPost(posts, r.id) = {}
           THEN /\ postRes' = PostRecordNotFound(r)
                /\ UNCHANGED <<posts, removed>>
           ELSE /\ posts' = DeletePost(posts, r.id)
                /\ removed' = removed \cup {r.id}
                /\ postRes' = PostOutcomeOf(r, TRUE, "OK", <<"Post deleted successfully">>,
                                            NoPost)
    /\ procs' = [procs EXCEPT ![p].pc = "done", ![p].before = NoSnapshot]
    /\ UNCHANGED <<cfg, now, ticks, users, rows, issued, consumed, res, seq, hook, guard>>

----------------------------------------------------------------------------
(* The guard, one request at a time, while users register and write posts  *)
(* and the tables are cleared.                                             *)

NextGuard ==
    \/ \E p \in OneProc, e \in Emails, pw \in RegisterPasswords, n \in RegisterNames :
          RegisterFind(p, e, pw, n)
    \/ \E p \in OneProc : RegisterHash(p)
    \/ \E p \in OneProc, o \in StoreUp, rd \in ClockReads(TickSteps) : RegisterCreate(p, o, rd)
    \/ \E p \in OneProc : GenerateTokensHash(p)
    \/ \E p \in OneProc, o \in StoreUp : GenerateTokensCreate(p, o)
    \/ \E p \in OneProc, t \in Presentable : AuthenticateVerify(p, t)
    \/ \E p \in OneProc : AuthenticateValidate(p)
    \/ \E p \in OneProc, t \in CreateTitles, b \in {TRUE} : CreatePostAs(p, t, b)
    \/ DeletePosts
    \/ DeleteUsers
    \/ \E d \in TickSteps : Tick(d)

SpecGuard == Init /\ [][NextGuard]_vars

----------------------------------------------------------------------------
(* PostService, two requests at a time *)

NextPost ==
    \/ \E p \in Procs, e \in Emails, pw \in RegisterPasswords, n \in RegisterNames :
          RegisterFind(p, e, pw, n)
    \/ \E p \in Procs : RegisterHash(p)
    \/ \E p \in Procs, o \in StoreUp, rd \in ClockReads(PostTickSteps) : RegisterCreate(p, o, rd)
    \/ \E p \in Procs : GenerateTokensHash(p)
    \/ \E p \in Procs, o \in StoreUp : GenerateTokensCreate(p, o)
    \/ \E p \in Procs, u \in users, t \in CreateTitles, b \in BOOLEAN :
          CreatePost(p, u.id, t, b)
    \/ \E p \in Procs, f \in {"all", "published", "drafts"} : FindAllPosts(p, f)
    \/ \E p \in Procs, id \in PostIds : FindOnePost(p, id)
    \/ \E p \in Procs, u \in users : FindPostsByAuthor(p, u.id)
    \/ \E p \in Procs, id \in PostIds, u \in users, f \in SUBSET PostFields,
             t \in UpdateTitles, b \in BOOLEAN :
          PostFind(p, "update", id, u.id, f, t, b)
    \/ \E p \in Procs, id \in PostIds, u \in users :
          PostFind(p, "remove", id, u.id, {}, "", FALSE)
    \/ \E p \in Procs : UpdatePost(p)
    \/ \E p \in Procs : RemovePost(p)
    \/ \E d \in PostTickSteps : Tick(d)

\* PostService reads nothing of the environment: one configuration is explored
InitPost ==
    /\ Init
    /\ cfg.JWT_SECRET # cfg.JWT_REFRESH_SECRET
    /\ cfg.JWT_REFRESH_EXPIRES_IN.unit = "d"
    /\ cfg.TZ = UTC

SpecPost == InitPost /\ [][NextPost]_vars

----------------------------------------------------------------------------
(* Vocabulary of the claims.  A claim about a call is stated of the step   *)
(* in which the request ends, with the tables and the clock of the moment  *)
(* the request arrived as what the call was made on.  A refresh reads the  *)
(* clock twice on arrival: its token is verified at the first reading, the *)
(* clock of the arrival, and a row is unexpired for it at the second, the  *)
(* reading in the filter of its findMany.                                  *)

\* ids of the rows that were created for token t
OwnRowIds(t) == {e.rowId : e \in {x \in issued : x.token = t}}

\* t has a row in the table of s
LiveAt(s, t) == OwnRowIds(t) \cap RowIds(s.rows) # {}

\* t has a row that findMany returns at the clock reading of s
LiveValidAt(s, t) == OwnRowIds(t) \cap RowIds(FindValid(s.rows, t.sub, s.now)) # {}

\* t passes steps 1 and 2 of refresh at the clock reading of s
AcceptedAt(s, t) == JwtVerify(t, cfg.JWT_REFRESH_SECRET, s.now) /\ t.type = "refresh"

\* t passes steps 1 and 2 of refresh at the current clock reading
Accepted(t) == AcceptedAt(Snapshot, t)

\* in this step a request arrives in slot p
Arrives(p) == seq' = seq + 1 /\ procs'[p].n = seq + 1

\* in this step the request in slot p ends
Ends(p) == procs'[p].pc = "done" /\ (procs[p].pc # "done" \/ procs'[p].n # procs[p].n)

\* in this step the request in slot p arrives or is resumed
Steps(p) == procs'[p].pc # procs[p].pc \/ procs'[p].n # procs[p].n

\* the tables and the clock on the arrival of the request that is in slot p after this
\* step
Called(p) == IF InFlight(p) THEN procs[p].before ELSE Snapshot

\* what findMany of the refresh request in slot p is asked: the tables on the arrival of
\* the request, with the clock reading the request put in the filter of its findMany
Listed(p) == [Called(p) EXCEPT !.now = procs'[p].gte]

\* in this step a refresh call presenting t ends
RefreshCall(p, t) == Ends(p) /\ procs'[p].op = "refresh" /\ procs'[p].tok = t

\* the request is between the delete of its matched row and the insert of the new one
InRotation(r) == r.op = "refresh" /\ r.pc \in {"tokenHash", "tokenCreate"}

\* what the caller can observe of an outcome
Observable(o) ==
    [ok |-> o.ok, kind |-> o.kind, msg |-> o.msg, user |-> o.user,
     refreshToken |-> o.refreshToken, accessToken |-> o.accessToken]

IsReuse(o) == o.kind = "Unauthorized" /\ o.msg = "Token reuse detected - all sessions revoked for security"

----------------------------------------------------------------------------
(* C1. Rotation is exactly-once: a first refresh(T) of a freshly issued,   *)
(* unexpired token T succeeds; a second refresh(T) directly after it (T    *)
(* was rotated away and not handed out again, and still verifies) fails    *)
(* with the reuse-detected outcome and leaves the user with no session     *)
(* row.                                                                    *)
C1_RotationExactlyOnce ==
    [][ \A p \in Procs :
        /\ \A t \in IssuedTokens :
              (/\ RefreshCall(p, t) /\ t \notin consumed
               /\ LiveValidAt(Listed(p), t) /\ AcceptedAt(Called(p), t))
                  => res'.ok
        /\ (/\ res.op = "refresh" /\ res.ok
            /\ res.refreshToken # res.presented
            /\ RefreshCall(p, res.presented)
            /\ AcceptedAt(Called(p), res.presented))
              => (IsReuse(res') /\ RowsOf(rows', res.presented.sub) = {})
      ]_vars

(* C2. Reuse wipes all devices: when the user holds two or more valid      *)
(* session rows and refresh is called with a token of that user that an    *)
(* earlier rotation consumed (and that has no row any more), every session *)
(* row of the user is deleted.                                             *)
C2_ReuseWipesAllDevices ==
    [][ \A p \in Procs : \A t \in consumed :
            (/\ RefreshCall(p, t)
             /\ ~ LiveAt(Called(p), t)
             /\ AcceptedAt(Called(p), t)
             /\ Cardinality(FindValid(Called(p).rows, t.sub, Listed(p).now)) >= 2)
              => RowsOf(rows', t.sub) = {}
      ]_vars

(* C3. Multi-device independence: when a user holds session rows of two    *)
(* logins, a successful refresh with the never-used token of one of them   *)
(* leaves every row that was created for another token in the table.       *)
C3_MultiDeviceIndependence ==
    [][ \A p \in Procs : \A t \in IssuedTokens :
            (/\ RefreshCall(p, t) /\ res'.ok
             /\ t \notin consumed /\ LiveValidAt(Listed(p), t))
              => \A r \in RowsOf(Called(p).rows, t.sub) :
                    r.id \notin OwnRowIds(t) => r \in rows'
      ]_vars

(* C4. Rotation chain: when the user holds exactly one session row, that   *)
(* row is unexpired and belongs to the presented token, and the token      *)
(* passes verification, refresh succeeds, and afterwards the user again    *)
(* holds exactly one row, the row of the token just returned.              *)
C4_ChainKeepsOneRow ==
    [][ \A p \in Procs : \A t \in IssuedTokens :
            (/\ RefreshCall(p, t)
             /\ Cardinality(RowsOf(Called(p).rows, t.sub)) = 1
             /\ LiveValidAt(Listed(p), t)
             /\ AcceptedAt(Called(p), t))
              => /\ res'.ok
                 /\ Cardinality(RowsOf(rows', t.sub)) = 1
                 /\ \E e \in issued' : /\ e.token = res'.refreshToken
                                       /\ e.rowId \in RowIds(RowsOf(rows', t.sub))
                                       /\ e.rowId \notin RowIds(Called(p).rows)
      ]_vars

\* a chain T -> T2 -> T3 of one user, registered once and never logged in again
C4_Witness ==
    /\ res.op = "refresh" /\ res.ok
    /\ Cardinality({t \in consumed : t.sub = res.user}) = 2
    /\ Cardinality({e \in issued : e.token.sub = res.user}) = 3
    /\ Cardinality(RowsOf(rows, res.user)) = 1

(* C5. Two refresh calls that present the same valid token and are in      *)
(* flight together: at most one of them returns a new token pair (the      *)
(* token itself was not handed out again by the winner).                   *)
C5_AtMostOneConcurrentWinner ==
    \A p \in Procs : \A q \in Procs \ {p} :
        (/\ procs[p].op = "refresh" /\ procs[q].op = "refresh"
         /\ procs[q].n \in procs[p].overlap
         /\ procs[p].tok = procs[q].tok
         /\ procs[p].out.ok
         /\ procs[p].out.refreshToken # procs[p].tok)
          => ~ procs[q].out.ok

(* C6. Two refresh calls present the same token concurrently and both      *)
(* match the same row; one of them deleted that row first: the other call  *)
(* ends with the reuse-detected outcome, and with no other failure.        *)
C6_LoserSeesReuse ==
    \A p \in Procs : \A q \in Procs \ {p} :
        (/\ procs[p].op = "refresh" /\ procs[q].op = "refresh"
         /\ procs[q].n \in procs[p].overlap
         /\ procs[p].tok = procs[q].tok
         /\ procs[p].matched # NoRow
         /\ procs[p].matched = procs[q].matched
         /\ (InRotation(procs[p]) \/ procs[p].out.ok)
         /\ procs[q].pc = "done"
         /\ ~ procs[q].outage)
          => IsReuse(procs[q].out)

(* C7. A refresh token that was issued and has no valid row any more       *)
(* (rotated away, revoked by logout or by the wipe, or expired in the      *)
(* store) never rotates successfully again.                                *)
C7_DeadTokensStayDead ==
    [][ \A p \in Procs : \A t \in IssuedTokens :
            (RefreshCall(p, t) /\ ~ LiveValidAt(Listed(p), t)) => ~ res'.ok
      ]_vars

(* C8. Store expiry is enforced: the row a successful refresh matches is   *)
(* never one whose expiresAt is earlier than the time of the call, and     *)
(* when every row of the subject is expired an accepted token gets the     *)
(* no-valid-session failure and the table is left as it is.                *)
C8_ExpiredRowsNeverMatched ==
    [][ \A p \in Procs : \A t \in Presentable :
            RefreshCall(p, t) =>
                /\ res'.ok => (/\ res'.matched \in Called(p).rows
                               /\ res'.matched.expiresAt >= Listed(p).now)
                /\ (/\ AcceptedAt(Called(p), t)
                    /\ \A r \in RowsOf(Called(p).rows, t.sub) : r.expiresAt < Listed(p).now)
                      => (res' = NoSessionFailure(t) /\ rows' = Called(p).rows)
      ]_vars

\* an accepted token met only an expired row of its subject
C8_Witness ==
    \E p \in Procs :
        /\ procs[p].pc = "done"
        /\ procs[p].op = "refresh"
        /\ procs[p].out.msg = "No valid refresh token found"
        /\ JwtVerify(procs[p].tok, cfg.JWT_REFRESH_SECRET, procs[p].gte)
        /\ \E r \in RowsOf(rows, procs[p].tok.sub) :
               r.id \in OwnRowIds(procs[p].tok) /\ r.expiresAt < procs[p].gte

(* C9. Login response symmetry: at every reachable users table, login with *)
(* an email that has no user and login with an existing email and a wrong  *)
(* password give the caller the same failure, field by field.              *)
C9_LoginSymmetry ==
    \A e1 \in Emails, e2 \in Emails, p1 \in Passwords, p2 \in Passwords :
        (/\ FindUserByEmail(users, e1) = {}
         /\ FindUserByEmail(users, e2) # {}
         /\ ~ LoginCheck(users, e2, p2).ok)
          => /\ Observable(LoginCheck(users, e1, p1)) = Observable(LoginCheck(users, e2, p2))
             /\ (res.op = "login" /\ ~ res.ok)
                   => Observable(res) = Observable(LoginCheck(users, e1, p1))

\* a login with a wrong password for a stored user has failed, and some email has no user
C9_Witness ==
    /\ res.op = "login" /\ ~ res.ok
    /\ FindUserByEmail(users, res.email) # {}
    /\ \E e \in Emails : FindUserByEmail(users, e) = {}

\* a presentable token that fails the signature check
WrongKey(t) == t.key # cfg.JWT_REFRESH_SECRET
\* a presentable token that passes jwtService.verify and is not of type refresh
WrongType(t) == JwtVerify(t, cfg.JWT_REFRESH_SECRET, now) /\ t.type # "refresh"

(* C10. A wrong-key token and a correctly signed token of another type     *)
(* produce the same failure of refresh: same kind and same message.        *)
C10_SameFailure ==
    \A t1 \in Presentable, t2 \in Presentable :
        (WrongKey(t1) /\ WrongType(t2))
          => /\ VerifyFailure(t1).kind = VerifyFailure(t2).kind
             /\ VerifyFailure(t1).msg = VerifyFailure(t2).msg

----------------------------------------------------------------------------
(* C11. A replay that refresh has to detect (the presented token verifies, *)
(* was rotated away before the call, and its subject still has unexpired   *)
(* rows when the call arrives) is refused, and refused exactly as a token  *)
(* signed with a wrong key is: same kind, same message.  Calls that the    *)
(* store rejected are left aside.                                          *)
C11_ReuseFailureIndistinguishable ==
    [][\A p \in Procs : \A t \in IssuedTokens :
          (/\ RefreshCall(p, t)
           /\ t \in consumed
           /\ AcceptedAt(Called(p), t)
           /\ ~ LiveAt(Called(p), t)
           /\ FindValid(Called(p).rows, t.sub, Listed(p).now) # {}
           /\ res'.kind # "InternalServerError")
            => /\ ~ res'.ok
               /\ res'.kind = VerifyFailure(Forged(t)).kind
               /\ res'.msg = VerifyFailure(Forged(t)).msg]_vars

----------------------------------------------------------------------------
(* C12. A refresh with a correctly signed, unexpired token of type refresh *)
(* whose subject has no unexpired row fails as Unauthorized with 'No valid *)
(* refresh token found', and deletes and inserts nothing: it ends when its *)
(* findMany is answered.                                                   *)
C12_NoSessionChangesNothing ==
    [][\A p \in Procs : \A t \in Presentable :
          (/\ RefreshCall(p, t)
           /\ AcceptedAt(Called(p), t)
           /\ {r \in Called(p).rows : r.userId = t.sub /\ r.expiresAt >= Listed(p).now} = {})
            => /\ ~ res'.ok
               /\ res'.kind = "Unauthorized"
               /\ res'.msg = "No valid refresh token found"
               /\ res'.refreshToken = NoToken
               /\ At(p, "refresh", "find")
               /\ rows = Called(p).rows
               /\ rows' = rows
               /\ issued' = issued
               /\ consumed' = consumed]_vars

\* refresh was refused for a valid token whose subject has no row at all, while rows of
\* another user are stored
C12_Witness ==
    /\ res.op = "refresh"
    /\ res.msg = "No valid refresh token found"
    /\ Accepted(res.presented)
    /\ RowsOf(rows, res.presented.sub) = {}
    /\ rows # {}

----------------------------------------------------------------------------
\* in this step a logout call of user uid arrives and ends
LogoutCall(p, uid) == Ends(p) /\ procs'[p].op = "logout" /\ procs'[p].uid = uid

(* C13. A logout(U) whose deleteMany the store serves succeeds, deletes     *)
(* every row of U and no other row; with no row of U it succeeds and       *)
(* changes nothing, and a logout that directly follows a served logout of  *)
(* the same user leaves the store as the first one left it.  A logout      *)
(* whose deleteMany the store rejects is answered 500 and deletes nothing. *)
C13_LogoutAllDevicesIdempotent ==
    [][\A p \in Procs : \A u \in users :
          LogoutCall(p, u.id)
            => IF procs'[p].outage
               THEN /\ ~ res'.ok
                    /\ res'.kind = "InternalServerError"
                    /\ rows' = rows
                    /\ users' = users
               ELSE /\ res'.ok
                    /\ res'.op = "logout"
                    /\ res'.msg = "Logged out successfully"
                    /\ RowsOf(rows', u.id) = {}
                    /\ rows' = {r \in rows : r.userId # u.id}
                    /\ ({r \in rows : r.userId = u.id} = {} => rows' = rows)
                    /\ ((res.op = "logout" /\ res.ok /\ res.user = u.id) => rows' = rows)
                    /\ users' = users]_vars

\* a user with sessions on two devices, none of them rotated, has logged out and has no
\* row left
C13_Witness ==
    /\ res.op = "logout"
    /\ res.ok
    /\ Cardinality({e \in issued : e.token.sub = res.user}) >= 2
    /\ consumed = {}
    /\ RowsOf(rows, res.user) = {}

----------------------------------------------------------------------------
\* in this step a register call for email e ends
RegisterCall(p, e) == Ends(p) /\ procs'[p].op = "register" /\ procs'[p].email = e

(* C14. register with an email that belongs to a user fails with Conflict  *)
(* 'Email already exists' and creates no user and no row; with a free      *)
(* email it creates one user with that email, one row of that user that    *)
(* holds the hash of the returned refresh token, and returns a token pair. *)
C14_RegisterConflictOrCreate ==
    [][\A p \in Procs : \A e \in Emails :
          RegisterCall(p, e)
            => IF {u \in Called(p).users : u.email = e} # {}
               THEN /\ ~ res'.ok
                    /\ res'.kind = "Conflict"
                    /\ res'.msg = "Email already exists"
                    /\ res'.refreshToken = NoToken
                    /\ res'.accessToken = NoToken
                    /\ ~ InFlight(p)
                    /\ users' = users
                    /\ rows' = rows
                    /\ issued' = issued
               ELSE /\ res'.ok
                    /\ Called(p).users \subseteq users'
                    /\ Called(p).rows \subseteq rows'
                    /\ Cardinality(users' \ Called(p).users) = 1
                    /\ Cardinality(rows' \ Called(p).rows) = 1
                    /\ \A u \in users' \ Called(p).users, r \in rows' \ Called(p).rows :
                          /\ u.email = e
                          /\ u.id = res'.user
                          /\ u.id \notin {v.id : v \in Called(p).users}
                          /\ r.userId = u.id
                          /\ res'.refreshToken # NoToken
                          /\ res'.accessToken # NoToken
                          /\ res'.refreshToken.sub = u.id
                          /\ res'.accessToken.sub = u.id
                          /\ BcryptCompare(TokenString(res'.refreshToken), r.token)]_vars

\* a register call was refused for an email that was taken; the one user with that email
\* and its one row are still there
C14_Witness ==
    /\ res.op = "register"
    /\ res.kind = "Conflict"
    /\ Cardinality({u \in users : u.email = res.email}) = 1
    /\ \E u \in users : u.email = res.email /\ Cardinality(RowsOf(rows, u.id)) = 1

----------------------------------------------------------------------------
(* C17. No stored credential is its plaintext: the password column of      *)
(* every user differs from every password a client can have registered     *)
(* with, and the token column of every row differs from every refresh      *)
(* token handed to a client.                                               *)
C17_NoPlaintextStored ==
    /\ \A u \in users, pw \in Passwords \cup RegisterPasswords :
          u.password # PasswordString(pw)
    /\ \A r \in rows, e \in issued : r.token # TokenString(e.token)

\* a user is stored whose password column verifies the registered password, with a row
\* whose token column verifies the refresh token that was returned
C17_Witness ==
    /\ res.op = "register"
    /\ res.ok
    /\ \E u \in users, pw \in RegisterPasswords :
          u.id = res.user /\ BcryptCompare(PasswordString(pw), u.password)
    /\ \E r \in RowsOf(rows, res.user) :
          BcryptCompare(TokenString(res.refreshToken), r.token)

----------------------------------------------------------------------------
(* C20. In refresh, the delete of the matched row and the insert of its    *)
(* replacement are one atomic step: while a request has deleted its row    *)
(* and not yet inserted the new one, no other request writes the session   *)
(* store or reads it with findMany, and the request does not end without   *)
(* having inserted the replacement.                                        *)
C20_DeleteInsertAtomic ==
    [][\A p \in Procs :
          /\ (InRotation(procs[p]) /\ InRotation(procs'[p]))
               => /\ rows' = rows
                  /\ \A q \in Procs \ {p} :
                        procs[q].pc = "find" => procs'[q].pc = "find"
          /\ (InRotation(procs[p]) /\ procs'[p].pc = "done")
               => /\ procs'[p].out.ok
                  /\ Cardinality(rows' \ rows) = 1]_vars

----------------------------------------------------------------------------
(* C15. When two register calls with the same email, in flight together    *)
(* and with no other request, have both ended, whatever the interleaving   *)
(* of their steps, exactly one has succeeded, the other has failed, and    *)
(* one user has that email.                                                *)
C15_OneConcurrentRegistration ==
    \A p \in Procs, q \in Procs :
        (/\ p # q
         /\ procs[p].op = "register" /\ procs[q].op = "register"
         /\ procs[p].pc = "done"
         /\ procs[q].pc = "done"
         /\ procs[p].overlap = {procs[q].n}
         /\ procs[q].overlap = {procs[p].n}
         /\ procs[p].email = procs[q].email
         /\ ~ procs[p].outage /\ ~ procs[q].outage)
          => /\ procs[p].out.ok # procs[q].out.ok
             /\ (~ procs[p].out.ok) =>
                    /\ procs[p].out.kind \in {"Conflict", "InternalServerError"}
                    /\ procs[p].out.refreshToken = NoToken
             /\ Cardinality({u \in users : u.email = procs[p].email}) = 1
             /\ \A u \in users : u.email = procs[p].email =>
                    /\ Cardinality(RowsOf(rows, u.id)) = 1
                    /\ \E w \in {p, q} : procs[w].out.ok /\ procs[w].out.user = u.id

\* two register calls for one email both found the email free; one created the user, the
\* other was refused by the unique index
C15_Witness ==
    \E p \in Procs, q \in Procs :
        /\ p # q
        /\ procs[p].op = "register" /\ procs[q].op = "register"
        /\ procs[p].pc = "done"
        /\ procs[q].pc = "done"
        /\ procs[p].overlap = {procs[q].n}
        /\ procs[p].email = procs[q].email
        /\ procs[p].out.ok
        /\ procs[q].out.kind = "InternalServerError"
        /\ ~ procs[q].outage

----------------------------------------------------------------------------
\* in this step the JWT guard gives its verdict on bearer token t
AuthenticateCall(t) == guard'.n # guard.n /\ guard'.token = t

(* C16. A bearer token passes the signature and expiry check on arrival    *)
(* exactly when the request goes on to the lookup of its subject.  When    *)
(* the lookup is answered and the user exists, the request proceeds with   *)
(* the profile (id, email, name) of that user and nothing else; when the   *)
(* user no longer exists, the request is rejected as Unauthorized, carries *)
(* no identity, ends there and writes nothing.  A handler runs only for a  *)
(* request that the guard accepted, and with the identity it was given.    *)
C16_ValidateSubject ==
    [][\A p \in Procs :
          /\ (Arrives(p) /\ procs'[p].op = "authenticate")
                => IF JwtVerify(procs'[p].tok, cfg.JWT_SECRET, now)
                   THEN procs'[p].pc = "validate" /\ guard' = guard
                   ELSE procs'[p].pc = "done" /\ guard' = Refused(seq + 1, procs'[p].tok)
          /\ (At(p, "authenticate", "validate") /\ Steps(p))
                => /\ AuthenticateCall(procs[p].tok)
                   /\ guard'.n = procs[p].n
                   /\ IF \E u \in users : u.id = procs[p].tok.sub
                      THEN /\ guard'.ok
                           /\ \E u \in users :
                                 /\ u.id = procs[p].tok.sub
                                 /\ guard'.user = [id |-> u.id, email |-> u.email,
                                                   name |-> u.name]
                           /\ procs'[p].op = "create" /\ procs'[p].pc = "write"
                           /\ procs'[p].uid = procs[p].tok.sub
                      ELSE /\ ~ guard'.ok
                           /\ guard'.kind = "Unauthorized"
                           /\ guard'.user = NoProfile
                           /\ procs'[p].pc = "done"
                           /\ posts' = posts
          /\ (At(p, "create", "write") /\ Steps(p))
                => /\ guard.ok
                   /\ guard.n = procs[p].n
                   /\ guard.user.id = procs[p].uid
                   /\ postRes'.ok => postRes'.post.authorId = guard.user.id]_vars

\* a token passed the check on arrival while the user it names was stored; the user was
\* deleted before the lookup was answered, and the request was refused
C16_Witness ==
    \E p \in Procs :
        /\ procs[p].pc = "done"
        /\ procs[p].op = "authenticate"
        /\ guard.n = procs[p].n
        /\ ~ guard.ok
        /\ guard.kind = "Unauthorized"
        /\ JwtVerify(guard.token, cfg.JWT_SECRET, now)
        /\ \E u \in procs[p].before.users : u.id = guard.token.sub
        /\ \A u \in users : u.id # guard.token.sub

----------------------------------------------------------------------------
\* in this step a PostService request of kind op arrives in slot p
PostCall(p, op) == Arrives(p) /\ procs'[p].op = op

\* the request that arrived in slot p has ended, and postRes' is its outcome
Answered(p) == procs'[p].pc = "done" /\ postRes'.n = procs'[p].n

(* C18. update and remove called by a user who is not the author of the    *)
(* post fail with Forbidden and leave the posts table as it was; called    *)
(* with an id that no post has they fail with NotFound.  Either way the    *)
(* request ends when its findOne is answered, before any write.            *)
C18_PostOwnership ==
    [][\A p \in Procs :
          (PostCall(p, "update") \/ PostCall(p, "remove"))
             => LET target == {q \in posts : q.id = procs'[p].id}
                IN  /\ target = {} =>
                          /\ Answered(p)
                          /\ ~ postRes'.ok
                          /\ postRes'.kind = "NotFound"
                          /\ posts' = posts
                    /\ (target # {} /\ \A q \in target : q.authorId # procs'[p].uid) =>
                          /\ Answered(p)
                          /\ ~ postRes'.ok
                          /\ postRes'.kind = "Forbidden"
                          /\ posts' = posts
                          /\ target \subseteq posts']_vars

\* a user asked to remove the post of another user, was refused, and the post is stored
C18_Witness ==
    /\ postRes.op = "remove"
    /\ postRes.kind = "Forbidden"
    /\ \E q \in posts : q.id = postRes.id /\ q.authorId # postRes.caller

(* C19. A post that its author removed is returned by no later read:       *)
(* findOne on its id fails with NotFound, findAll and findByAuthor do not  *)
(* list it, a remove and an update that arrive later fail with NotFound,   *)
(* and no stored post has its id.                                          *)
C19_RemovedPostsStayGone ==
    [][\A p \in Procs :
       /\ PostCall(p, "findOne") =>
            /\ Answered(p)
            /\ postRes'.id \in removed => ~ postRes'.ok /\ postRes'.kind = "NotFound"
       /\ (PostCall(p, "findAll") \/ PostCall(p, "findByAuthor")) =>
            /\ Answered(p)
            /\ \A i \in DOMAIN postRes'.list : postRes'.list[i].id \notin removed
       /\ (PostCall(p, "update") \/ PostCall(p, "remove")) =>
            (procs'[p].id \in removed =>
                /\ Answered(p)
                /\ ~ postRes'.ok /\ postRes'.kind = "NotFound" /\ posts' = posts)
       /\ \A q \in posts' : q.id \notin removed']_vars

\* findOne was asked for a post that its author had removed, and failed with NotFound
C19_Witness ==
    /\ postRes.op = "findOne"
    /\ postRes.kind = "NotFound"
    /\ postRes.id \in removed

----------------------------------------------------------------------------
\* in this step the delete of a refresh that presented token t is served
ConsumedBy(t) ==
    \E p \in Procs : /\ At(p, "refresh", "write")
                     /\ procs[p].tok = t
                     /\ procs'[p].pc = "tokenHash"

\* this step deleted every row of user uid: a logout, or the wipe of a detected reuse
RevokedBy(uid) ==
    \E p \in Procs :
        \/ LogoutCall(p, uid)
        \/ /\ At(p, "refresh", "write")
           /\ procs[p].tok.sub = uid
           /\ procs'[p].pc = "done"
           /\ IsReuse(procs'[p].out)

(* C21. A row exists for a refresh token exactly when the token was issued *)
(* and has been neither consumed by a rotation nor revoked: the row of an  *)
(* issuance is there from the step that issues it, and it goes in the step *)
(* that rotates its token or revokes its user, and in no other step.       *)
C21_RowIffIssuedAndLive ==
    [][\A e \in issued' :
          e.rowId \in RowIds(rows')
            <=> \/ e \notin issued
                \/ /\ e.rowId \in RowIds(rows)
                   /\ ~ ConsumedBy(e.token)
                   /\ ~ RevokedBy(e.token.sub)]_vars

----------------------------------------------------------------------------
(* C22. Every token that can be presented matches at most one stored row   *)
(* under the comparison refresh uses, and no row is matched by two         *)
(* different issued tokens.                                                *)
C22_AtMostOneMatch ==
    /\ \A t \in Presentable : Cardinality(Matching(t, rows)) <= 1
    /\ \A r \in rows : Cardinality({t \in IssuedTokens : r \in Matching(t, rows)}) <= 1

----------------------------------------------------------------------------
(* C23. The hash comparison is exact: a stored token hash verifies an      *)
(* issued token only if it was produced from exactly that token, and a     *)
(* stored password hash verifies only the password it was produced from.   *)
C23_VerifyIsExact ==
    /\ \A r \in rows, e \in issued :
          BcryptCompare(TokenString(e.token), r.token)
            <=> \E o \in issued : o.rowId = r.id /\ o.token = e.token
    /\ \A u \in users, pw1 \in Passwords \cup RegisterPasswords,
                        pw2 \in Passwords \cup RegisterPasswords :
          (/\ BcryptCompare(PasswordString(pw1), u.password)
           /\ BcryptCompare(PasswordString(pw2), u.password)) => pw1 = pw2

----------------------------------------------------------------------------
(* C24. Any two issuances of a refresh token, by register, login or        *)
(* refresh, give different tokens.                                         *)
C24_IssuedTokensDistinct ==
    \A e1 \in issued, e2 \in issued : e1.rowId # e2.rowId => e1.token # e2.token

----------------------------------------------------------------------------
(* C27. A login that fails has run a password-hash comparison, whether the *)
(* email belongs to no user or the password is wrong: it ends when its     *)
(* bcrypt.compare has resolved.                                            *)
C27_LoginAlwaysCompares ==
    [][\A p \in Procs :
          (Ends(p) /\ procs'[p].op = "login" /\ ~ procs'[p].out.ok)
            => At(p, "login", "compare")]_vars

----------------------------------------------------------------------------
(* C29. Token classes are not interchangeable: refresh never accepts an    *)
(* access token, and the JWT guard never accepts a refresh token as a      *)
(* bearer token.                                                           *)
C29_TokenClassesSeparate ==
    /\ guard.ok => guard.token.type # "refresh"
    /\ \A t \in Presentable : t.type # "refresh" => VerifyFailure(t) # NoOutcome

----------------------------------------------------------------------------
\* the user a request acts for: the subject of the presented token for refresh, the user
\* that registers, logs in or logs out otherwise (0 when none)
Actor(r) == IF r.op = "refresh" THEN r.tok.sub ELSE r.uid

(* C30. Every step of a register, login, refresh or logout acting for user *)
(* U, served or rejected, successful or not, leaves the rows of every      *)
(* other user as they were: none is created, deleted or changed; and the   *)
(* rows change in the steps of requests only.                              *)
C30_PerUserIsolation ==
    [][/\ \A p \in Procs :
            Steps(p)
              => \A v \in {r.userId : r \in rows \cup rows'} :
                    v # Actor(procs'[p])
                      => {r \in rows' : r.userId = v} = {r \in rows : r.userId = v}
       /\ rows' # rows => \E p \in Procs : Steps(p)]_vars

\* a refresh of one user has replaced a row of that user, while a row of another user is
\* stored
C30_Witness ==
    /\ res.op = "refresh"
    /\ res.ok
    /\ res.matched # NoRow
    /\ res.matched \notin rows
    /\ \E r \in rows : r.userId = res.user
    /\ \E r \in rows : r.userId # res.user

----------------------------------------------------------------------------
(* C28. Revocation is final: after every row of user U was deleted, by a   *)
(* logout or by the wipe of a detected reuse, a refresh for U that was in  *)
(* flight during the deletion adds no row of U in the steps it makes       *)
(* afterwards.                                                             *)
C28_RevocationIsFinal ==
    [][\A p \in Procs :
          (/\ procs[p].op = "refresh"
           /\ procs[p].revoked
           /\ procs'[p].pc # procs[p].pc
           /\ procs'[p].n = procs[p].n)
            => RowsOf(rows', procs[p].tok.sub) \subseteq RowsOf(rows, procs[p].tok.sub)]_vars

----------------------------------------------------------------------------
(* C25. A refresh whose token has a wrong signature, a passed expiry or a  *)
(* type other than refresh is answered Unauthorized when it arrives: the   *)
(* request never reaches its findMany or a write, it holds no rows read    *)
(* from the store, and the store is unchanged.                             *)
C25_RejectedBeforeStore ==
    [][\A p \in Procs :
          (Arrives(p) /\ procs'[p].op = "refresh" /\ ~ Accepted(procs'[p].tok))
            => /\ procs'[p].pc = "done"
               /\ ~ procs'[p].out.ok
               /\ procs'[p].out.kind = "Unauthorized"
               /\ procs'[p].out.msg \in {"Invalid refresh token", "Invalid token type"}
               /\ procs'[p].stored = {}
               /\ procs'[p].matched = NoRow
               /\ rows' = rows
               /\ issued' = issued
               /\ consumed' = consumed]_vars

\* a token that does not verify was refused while its user had a row, which is stored
C25_Witness ==
    \E p \in Procs :
        /\ procs[p].pc = "done"
        /\ procs[p].out.msg = "Invalid refresh token"
        /\ procs[p].stored = {}
        /\ \E r \in rows : r.userId = procs[p].tok.sub

----------------------------------------------------------------------------
(* C26. When the findMany of refresh fails, the request ends there with a  *)
(* generic failure: it is not the reuse-detected outcome, no row is        *)
(* deleted or inserted, and the request makes no further step.             *)
C26_ReadFailureNeverWipes ==
    [][\A p \in Procs :
          /\ (At(p, "refresh", "find") /\ procs'[p].outage)
               => /\ procs'[p].pc = "done"
                  /\ ~ procs'[p].out.ok
                  /\ procs'[p].out.kind = "InternalServerError"
                  /\ ~ IsReuse(procs'[p].out)
                  /\ rows' = rows
                  /\ issued' = issued
          /\ (procs[p].outage /\ procs'[p].n = procs[p].n) => procs'[p] = procs[p]]_vars

\* the findMany of a refresh with an accepted token failed; the rows of its user are stored
C26_Witness ==
    \E p \in Procs :
        /\ procs[p].outage
        /\ procs[p].pc = "done"
        /\ procs[p].op = "refresh"
        /\ procs[p].stored = {}
        /\ procs[p].out.kind = "InternalServerError"
        /\ \E r \in rows : r.userId = procs[p].tok.sub /\ r.expiresAt >= now

====
